---------------------------- MODULE Spec2Model ----------------------------
(***************************************************************************)
(* Model of the Terraform metrics exporter.                                *)
(*                                                                         *)
(* Two programs live in the repository: the exporter built around          *)
(* collectMetrics (plan JSON + apply log + refresh log -> gauges pushed to *)
(* a Pushgateway) and an earlier exporter built around parseTerraformPlan. *)
(* Both are modelled, together with the three transcript interpreters      *)
(* parseLogStats, detectDrift and isTerraformRunSuccessful.                *)
(*                                                                         *)
(* Text is modelled at the level the code works on it: a Go string is a    *)
(* sequence of characters (one-character TLA+ strings), and the functions  *)
(* of package strings / strconv / bufio that the code calls are computed   *)
(* on those sequences.                                                     *)
(***************************************************************************)
EXTENDS Integers, Sequences, FiniteSets, TLC

VARIABLES
    prog,      \* which entry point this behaviour runs
    pc,        \* position of that entry point
    env,       \* the process environment (os.Getenv) and the wall clock
    fs,        \* the files the run can see, by path
    metrics,   \* name -> value of the gauges built so far
    writes,    \* every gauge write (makeGauge / Gauge.Set) in program order
    calls,     \* arguments of the isTerraformRunSuccessful invocations
    stdout,    \* what the program printed with fmt.Println
    ret,       \* the value the entry point returned
    pushed     \* the batches the Pushgateway has received

vars == <<prog, pc, env, fs, metrics, writes, calls, stdout, ret, pushed>>

(***************************************************************************)
(* Bounds of the model.                                                    *)
(***************************************************************************)
\* resource_changes records in a plan document
MaxRecords == 2
\* fragments concatenated into a refresh transcript
MaxFragments == 3
\* lines in a transcript handed to a line scanner
MaxLines == 2
\* largest count printed in an "Apply complete!" summary
MaxCount == 2

(***************************************************************************)
(* Characters and string literals of the source.                           *)
(***************************************************************************)
\* U+2502, the box-drawing bar of Terraform's styled error blocks
cBox == "U+2502"

sApplyComplete ==
    <<"A","p","p","l","y"," ","c","o","m","p","l","e","t","e","!">>
sAdded ==
    <<"a","d","d","e","d">>
sChanged ==
    <<"c","h","a","n","g","e","d">>
sDestroyed ==
    <<"d","e","s","t","r","o","y","e","d">>
sImported ==
    <<"i","m","p","o","r","t","e","d">>
sNoChanges ==
    <<"N","o"," ","c","h","a","n","g","e","s","."," ","Y","o","u","r"," ",
      "i","n","f","r","a","s","t","r","u","c","t","u","r","e"," ",
      "s","t","i","l","l"," ","m","a","t","c","h","e","s"," ","t","h","e"," ",
      "c","o","n","f","i","g","u","r","a","t","i","o","n",".">>
sRefreshing ==
    <<"R","e","f","r","e","s","h","i","n","g"," ","s","t","a","t","e",
      ".",".",".">>
sErrorColon ==
    <<"E","r","r","o","r",":">>
sBoxError ==
    <<cBox," ","E","r","r","o","r">>

(***************************************************************************)
(* package strings / strconv, as far as the code uses them.                *)
(***************************************************************************)
\* unicode.IsSpace on the characters that occur in the transcripts
IsSpace(c) ==
    c \in {" ", "\t", "\n", "\r"}

IsDigit(c) ==
    c \in {"0","1","2","3","4","5","6","7","8","9"}

DigitVal(c) ==
    CASE c = "0" -> 0 [] c = "1" -> 1 [] c = "2" -> 2 [] c = "3" -> 3
      [] c = "4" -> 4 [] c = "5" -> 5 [] c = "6" -> 6 [] c = "7" -> 7
      [] c = "8" -> 8 [] c = "9" -> 9

\* s has sub at position i (1-based)
HasAt(s, sub, i) ==
    /\ i + Len(sub) - 1 <= Len(s)
    /\ \A k \in 1..Len(sub) : s[i + k - 1] = sub[k]

\* strings.Contains(s, sub)
Contains(s, sub) ==
    \E i \in 1..(Len(s) - Len(sub) + 1) : HasAt(s, sub, i)

\* the k-th smallest element of a finite set of integers
Nth(S, k) ==
    CHOOSE i \in S : Cardinality({ j \in S : j < i }) = k - 1

\* strings.Split(s, sep) for a one-character separator: the pieces between
\* the occurrences of sep, empty pieces included
Split(s, sep) ==
    LET at     == { i \in 1..Len(s) : s[i] = sep }
        n      == Cardinality(at)
        cut(k) == IF k = 0 THEN 0 ELSE IF k = n + 1 THEN Len(s) + 1 ELSE Nth(at, k)
    IN  [k \in 1..(n + 1) |-> SubSeq(s, cut(k - 1) + 1, cut(k) - 1)]

\* strings.TrimSpace(s)
TrimSpace(s) ==
    LET keep == { i \in 1..Len(s) : ~IsSpace(s[i]) }
    IN  IF keep = {} THEN <<>>
        ELSE SubSeq(s, Nth(keep, 1), Nth(keep, Cardinality(keep)))

\* strings.Fields(s): the maximal runs of non-space characters
Fields(s) ==
    LET starts == { i \in 1..Len(s) :
                      ~IsSpace(s[i]) /\ (i = 1 \/ IsSpace(s[i - 1])) }
        ends   == { i \in 1..Len(s) :
                      ~IsSpace(s[i]) /\ (i = Len(s) \/ IsSpace(s[i + 1])) }
    IN  [k \in 1..Cardinality(starts) |-> SubSeq(s, Nth(starts, k), Nth(ends, k))]

\* value of a run of digits
RECURSIVE DigitsVal(_, _)
DigitsVal(s, acc) ==
    IF s = <<>> THEN acc ELSE DigitsVal(Tail(s), acc * 10 + DigitVal(Head(s)))

\* strconv.Atoi(s) with the error discarded, as `count, _ := strconv.Atoi(..)`
\* does: an optional sign and at least one digit, nothing else; 0 on a syntax
\* error.  (The digit strings of the model stay far below the int range.)
Atoi(s) ==
    LET signed == s /= <<>> /\ Head(s) \in {"+", "-"}
        body   == IF signed THEN Tail(s) ELSE s
    IN  IF body = <<>> \/ \E k \in 1..Len(body) : ~IsDigit(body[k])
        THEN 0
        ELSE IF signed /\ Head(s) = "-" THEN 0 - DigitsVal(body, 0)
        ELSE DigitsVal(body, 0)

(***************************************************************************)
(* Files.  A file is absent (os.Open / os.ReadFile fail) or present.  A    *)
(* present file shows the views the code takes of its bytes:               *)
(*   lines - what a bufio.Scanner would split it into; a line is its text  *)
(*           followed by `pad` filler characters 'x' (no marker the code   *)
(*           looks for contains an 'x', so the filler decides nothing but  *)
(*           the line's length);                                           *)
(*   text  - string(data) after os.ReadFile;                               *)
(*   json  - what json.Unmarshal makes of it: a PlanJSON value, or Invalid *)
(*           for bytes that are no JSON document.                          *)
(***************************************************************************)
NoFile == [exists |-> FALSE]

Invalid == [valid |-> FALSE]

TextFile(t) ==
    [exists |-> TRUE, text |-> t]

LogFile(ls) ==
    [exists |-> TRUE, lines |-> ls]

PlanFile(j, ls) ==
    [exists |-> TRUE, json |-> j, lines |-> ls]

Line(t, p) ==
    [text |-> t, pad |-> p]

LineLen(l) ==
    Len(l.text) + l.pad

\* bufio.MaxScanTokenSize, the buffer limit of a Scanner made by
\* bufio.NewScanner: a line of this many bytes or more is never delivered,
\* Scan returns false there and the scan ends.
MaxScanTokenSize == 65536

\* The lines scanner.Scan() delivers, in order, as scanner.Text() shows them:
\* those before the first line that does not fit the buffer.
RECURSIVE Scanned(_)
Scanned(ls) ==
    IF ls = <<>> \/ LineLen(Head(ls)) >= MaxScanTokenSize THEN <<>>
    ELSE <<Head(ls).text>> \o Scanned(Tail(ls))

(***************************************************************************)
(* parseLogStats                                                           *)
(***************************************************************************)
Zero == [added |-> 0, changed |-> 0, destroyed |-> 0, imported |-> 0]

\* one `stat` of the inner loop: the body of `for _, stat := range stats`
ApplyStat(st, stat) ==
    LET parts == Fields(TrimSpace(stat))
    IN  IF Len(parts) < 2 THEN st
        ELSE LET count == Atoi(parts[1])
             IN  CASE parts[2] = sAdded     -> [st EXCEPT !.added = count]
                   [] parts[2] = sChanged   -> [st EXCEPT !.changed = count]
                   [] parts[2] = sDestroyed -> [st EXCEPT !.destroyed = count]
                   [] parts[2] = sImported  -> [st EXCEPT !.imported = count]
                   [] OTHER                 -> st

RECURSIVE ApplyStats(_, _)
ApplyStats(st, stats) ==
    IF stats = <<>> THEN st
    ELSE ApplyStats(ApplyStat(st, Head(stats)), Tail(stats))

\* one line of the outer loop: the body of `for scanner.Scan()`
ScanStatsLine(st, line) ==
    IF ~Contains(line, sApplyComplete) THEN st
    ELSE LET fields == Split(line, ":")
         IN  IF Len(fields) < 2 THEN st
             ELSE ApplyStats(st, Split(fields[2], ","))

RECURSIVE ScanStats(_, _)
ScanStats(st, lines) ==
    IF lines = <<>> THEN st
    ELSE ScanStats(ScanStatsLine(st, Head(lines)), Tail(lines))

parseLogStats(files, path) ==
    IF ~files[path].exists THEN Zero
    ELSE ScanStats(Zero, Scanned(files[path].lines))

(***************************************************************************)
(* detectDrift                                                             *)
(***************************************************************************)
\* detectDrift with its two tests in the other order
detectDriftRefreshFirst(files, logPath) ==
    IF ~files[logPath].exists
    THEN [drift |-> 0, out |-> <<"Error reading refresh log:">>]
    ELSE LET logContent == files[logPath].text
         IN  IF Contains(logContent, sRefreshing) THEN [drift |-> 1, out |-> <<>>]
             ELSE [drift |-> 0, out |-> <<>>]

\* [drift, out]: the returned value and what the call printed
detectDrift(files, logPath) ==
    IF ~files[logPath].exists
    THEN [drift |-> 0, out |-> <<"Error reading refresh log:">>]
    ELSE LET logContent == files[logPath].text
         IN  IF Contains(logContent, sNoChanges) THEN [drift |-> 0, out |-> <<>>]
             ELSE IF Contains(logContent, sRefreshing) THEN [drift |-> 1, out |-> <<>>]
             ELSE [drift |-> 0, out |-> <<>>]

(***************************************************************************)
(* isTerraformRunSuccessful                                                *)
(***************************************************************************)
IsErrorLine(line) ==
    Contains(line, sErrorColon) \/ Contains(line, sBoxError)

isTerraformRunSuccessful(files, logPath) ==
    IF ~files[logPath].exists THEN FALSE
    ELSE LET lines == Scanned(files[logPath].lines)
         IN  ~\E k \in 1..Len(lines) : IsErrorLine(lines[k])

(***************************************************************************)
(* The plan document and its tally.                                        *)
(***************************************************************************)
\* ResourceChange{Type, Change.Actions}
ResourceChange(t, as) ==
    [Type |-> t, Actions |-> as]

\* the zero value of PlanJSON, what `var plan PlanJSON` holds before decoding
ZeroPlan == [valid |-> TRUE, Timestamp |-> "", ResourceChanges |-> <<>>]

\* func contains(slice []string, val string) bool
RECURSIVE contains(_, _)
contains(slice, val) ==
    IF slice = <<>> THEN FALSE
    ELSE IF Head(slice) = val THEN TRUE
    ELSE contains(Tail(slice), val)

B2I(b) ==
    IF b THEN 1 ELSE 0

\* the tally with its four tests chained by else: a record counts in the
\* first bucket that matches only
RECURSIVE TallyLoopElseIf(_, _)
TallyLoopElseIf(t, rcs) ==
    IF rcs = <<>> THEN t
    ELSE LET actions == Head(rcs).Actions
             c == contains(actions, "create")
             u == ~c /\ contains(actions, "update")
             d == ~c /\ ~u /\ contains(actions, "delete")
             i == ~c /\ ~u /\ ~d /\ contains(actions, "import")
         IN  TallyLoopElseIf([total     |-> t.total + 1,
                              toAdd     |-> t.toAdd + B2I(c),
                              toChange  |-> t.toChange + B2I(u),
                              toDestroy |-> t.toDestroy + B2I(d),
                              toImport  |-> t.toImport + B2I(i)],
                             Tail(rcs))

\* the loop `for _, rc := range plan.ResourceChanges` of collectMetrics
RECURSIVE TallyLoop(_, _)
TallyLoop(t, rcs) ==
    IF rcs = <<>> THEN t
    ELSE LET actions == Head(rcs).Actions
         IN  TallyLoop([total     |-> t.total + 1,
                        toAdd     |-> t.toAdd + B2I(contains(actions, "create")),
                        toChange  |-> t.toChange + B2I(contains(actions, "update")),
                        toDestroy |-> t.toDestroy + B2I(contains(actions, "delete")),
                        toImport  |-> t.toImport + B2I(contains(actions, "import"))],
                       Tail(rcs))

Tally(rcs) ==
    TallyLoop([total |-> 0, toAdd |-> 0, toChange |-> 0, toDestroy |-> 0,
               toImport |-> 0], rcs)

\* time.Parse(time.RFC3339, ts) on the timestamps of the model: the Unix
\* seconds of a well-formed timestamp, or an error
ParseRFC3339(ts) ==
    CASE ts = "2024-05-01T10:00:00Z" -> [ok |-> TRUE, unix |-> 1714557600]
      [] ts = "1970-01-01T00:01:00Z" -> [ok |-> TRUE, unix |-> 60]
      [] OTHER                       -> [ok |-> FALSE, unix |-> 0]

(***************************************************************************)
(* collectMetrics                                                          *)
(***************************************************************************)
Gauge(n, v) ==
    [name |-> n, value |-> v]

\* makeGauge: metrics[name] = g
makeGauge(m, g) ==
    [n \in DOMAIN m \cup {g.name} |-> IF n = g.name THEN g.value ELSE m[n]]

RECURSIVE MakeGauges(_, _)
MakeGauges(m, gs) ==
    IF gs = <<>> THEN m ELSE MakeGauges(makeGauge(m, Head(gs)), Tail(gs))

\* the map before the first makeGauge
NoMetrics == [n \in {} |-> 0]

\* the plan as collectMetrics holds it after os.ReadFile + json.Unmarshal:
\* both results are dropped on failure and the zero value stays
DecodePlan(files, planPath) ==
    IF files[planPath].exists /\ files[planPath].json.valid
    THEN files[planPath].json
    ELSE ZeroPlan

\* the value written to terraform_drift_detected
DriftValue(files, e) ==
    detectDrift(files, e.refreshLogPath).drift

\* the value written to terraform_timestamp
Timestamp(e, plan) ==
    IF plan.Timestamp /= "" /\ ParseRFC3339(plan.Timestamp).ok
    THEN ParseRFC3339(plan.Timestamp).unix
    ELSE e.now

\* "Export common metrics": the eight makeGauge calls
CommonGauges(files, e) ==
    LET startUnix    == Atoi(e.startTimeEnv)
        execDuration == e.now - startUnix
        plan         == DecodePlan(files, e.planPath)
        t            == Tally(plan.ResourceChanges)
    IN  << Gauge("terraform_execution_duration_seconds", execDuration),
           Gauge("terraform_timestamp", Timestamp(e, plan)),
           Gauge("terraform_drift_detected", DriftValue(files, e)),
           Gauge("terraform_resources_total", t.total),
           Gauge("terraform_to_add", t.toAdd),
           Gauge("terraform_to_change", t.toChange),
           Gauge("terraform_to_destroy", t.toDestroy),
           Gauge("terraform_to_import", t.toImport) >>

\* the apply block writing its counts under the planned names
ApplyGaugesPlannedNames(files, e) ==
    IF e.applyLogPath = "" THEN <<>>
    ELSE LET st == parseLogStats(files, e.applyLogPath)
         IN  << Gauge("terraform_to_add", st.added),
                Gauge("terraform_to_change", st.changed),
                Gauge("terraform_to_destroy", st.destroyed),
                Gauge("terraform_to_import", st.imported) >>

\* "Apply context": the four gauges of the actual counts
ApplyGauges(files, e) ==
    IF e.applyLogPath = "" THEN <<>>
    ELSE LET st == parseLogStats(files, e.applyLogPath)
         IN  << Gauge("terraform_added", st.added),
                Gauge("terraform_changed", st.changed),
                Gauge("terraform_destroyed", st.destroyed),
                Gauge("terraform_imported", st.imported) >>

\* the outcome read from the plan whatever else is configured
ResultLogPathPlanOnly(e) ==
    e.planPath

\* the transcript the run's outcome is read from
ResultLogPath(e) ==
    IF e.applyLogPath /= "" THEN e.applyLogPath ELSE e.planPath

\* the if/else around the two makeGauge("terraform_result", ..) calls
ResultGauges(files, e) ==
    IF isTerraformRunSuccessful(files, ResultLogPath(e))
    THEN << Gauge("terraform_result", 1) >>
    ELSE << Gauge("terraform_result", 0) >>

\* collectMetrics up to the push: the gauge writes in program order, the map
\* they leave, the classifier invocations and the printed lines
collectMetrics(files, e) ==
    LET ws == CommonGauges(files, e) \o ApplyGauges(files, e) \o ResultGauges(files, e)
    IN  [writes  |-> ws,
         metrics |-> MakeGauges(NoMetrics, ws),
         calls   |-> << ResultLogPath(e) >>,
         stdout  |-> detectDrift(files, e.refreshLogPath).out]

(***************************************************************************)
(* The earlier exporter: parseTerraformPlan and its main.                  *)
(***************************************************************************)
\* the loop of parseTerraformPlan counting every update as drift
RECURSIVE PlanLoopAnyUpdate(_, _)
PlanLoopAnyUpdate(t, rcs) ==
    IF rcs = <<>> THEN t
    ELSE LET actions == Head(rcs).Actions
         IN  PlanLoopAnyUpdate(
                 [total     |-> t.total + 1,
                  added     |-> t.added + B2I(contains(actions, "create")),
                  changed   |-> t.changed + B2I(contains(actions, "update")),
                  destroyed |-> t.destroyed + B2I(contains(actions, "delete")),
                  drift     |-> t.drift + B2I(contains(actions, "update"))],
                 Tail(rcs))

\* the loop of parseTerraformPlan
RECURSIVE PlanLoop(_, _)
PlanLoop(t, rcs) ==
    IF rcs = <<>> THEN t
    ELSE LET actions == Head(rcs).Actions
         IN  PlanLoop([total     |-> t.total + 1,
                       added     |-> t.added + B2I(contains(actions, "create")),
                       changed   |-> t.changed + B2I(contains(actions, "update")),
                       destroyed |-> t.destroyed + B2I(contains(actions, "delete")),
                       drift     |-> t.drift
                                     + B2I(Len(actions) = 1 /\ actions[1] = "update")],
                      Tail(rcs))

min(a, b) ==
    IF a < b THEN a ELSE b

\* [err, sets]: the returned error and the Gauge.Set calls made
parseTerraformPlan(files, path) ==
    IF ~files[path].exists THEN [err |-> "read", sets |-> <<>>]
    ELSE IF ~files[path].json.valid THEN [err |-> "decode", sets |-> <<>>]
    ELSE LET t == PlanLoop([total |-> 0, added |-> 0, changed |-> 0,
                            destroyed |-> 0, drift |-> 0],
                           files[path].json.ResourceChanges)
         IN  [err  |-> "nil",
              sets |-> << Gauge("terraform_resources_total", t.total),
                          Gauge("terraform_resources_added", t.added),
                          Gauge("terraform_resources_changed", t.changed),
                          Gauge("terraform_resources_destroyed", t.destroyed),
                          Gauge("terraform_drift_detected", min(1, t.drift)) >>]

\* the package-level gauges, each 0 until Set
GlobalGauges ==
    [n \in {"terraform_resources_total", "terraform_resources_added",
            "terraform_resources_changed", "terraform_resources_destroyed",
            "terraform_execution_duration_seconds",
            "terraform_execution_success", "terraform_drift_detected"} |-> 0]

\* main of the earlier exporter up to the push
PlanMain(files, e) ==
    LET r  == parseTerraformPlan(files, e.planPath)
        ws == r.sets
              \o << Gauge("terraform_execution_success", B2I(r.err = "nil")) >>
              \o << Gauge("terraform_execution_duration_seconds", e.elapsed) >>
    IN  [writes  |-> ws,
         metrics |-> MakeGauges(GlobalGauges, ws),
         stdout  |-> IF r.err = "nil" THEN <<>>
                     ELSE << "Error parsing plan:", r.err >>]

(***************************************************************************)
(* The inputs of a run: transcripts, plan documents, environment.          *)
(***************************************************************************)
sResources ==
    <<"R","e","s","o","u","r","c","e","s",":">>
sCreating ==
    <<"a","w","s","_","i","n","s","t","a","n","c","e",".","w","e","b",":"," ",
      "C","r","e","a","t","i","n","g",".",".",".">>
sErrorLine ==
    <<"E","r","r","o","r",":"," ","c","r","e","a","t","i","n","g"," ",
      "E","C","2"," ","I","n","s","t","a","n","c","e">>
sBoxErrorLine ==
    <<cBox," ","E","r","r","o","r"," ","c","r","e","a","t","i","n","g">>
sErrorsWord ==
    <<"0"," ","e","r","r","o","r","s">>
sRefreshLine ==
    <<"a","w","s","_","i","n","s","t","a","n","c","e",".","w","e","b",":"," ",
      "R","e","f","r","e","s","h","i","n","g"," ","s","t","a","t","e",
      ".",".","."," ","[","i","d","=","i","-","0","a","1","]">>
sNoChangesPlan ==
    <<"N","o"," ","c","h","a","n","g","e","s","."," ","Y","o","u","r"," ",
      "i","n","f","r","a","s","t","r","u","c","t","u","r","e"," ",
      "m","a","t","c","h","e","s"," ","t","h","e"," ",
      "c","o","n","f","i","g","u","r","a","t","i","o","n",".">>
sRefreshingNoDots ==
    <<"R","e","f","r","e","s","h","i","n","g"," ","s","t","a","t","e">>
\* how a plan document starts; of the bytes of a JSON plan the line scanner
\* is only shown this start and the length of the line
sJson ==
    <<"{","\"","f","o","r","m","a","t","_","v","e","r","s","i","o","n","\"",":">>
sPlanText ==
    <<"P","l","a","n",":"," ","1"," ","t","o"," ","a","d","d">>

\* decimal digits of n, 0 <= n < 100
Itoa(n) ==
    LET d(k) == <<"0","1","2","3","4","5","6","7","8","9">>[k + 1]
    IN  IF n < 10 THEN << d(n) >> ELSE << d(n \div 10), d(n % 10) >>

\* Terraform's summary line; imp < 0 leaves the imported clause out
SummaryLine(a, c, d, imp) ==
    sApplyComplete \o <<" ">> \o sResources
      \o <<" ">> \o Itoa(a) \o <<" ">> \o sAdded
      \o <<",", " ">> \o Itoa(c) \o <<" ">> \o sChanged
      \o <<",", " ">> \o Itoa(d) \o <<" ">> \o sDestroyed
      \o (IF imp < 0 THEN <<>> ELSE <<",", " ">> \o Itoa(imp) \o <<" ">> \o sImported)
      \o <<".">>

\* marker lines that are not of the summary form
OddMarkerLines ==
    { sApplyComplete,
      sApplyComplete \o <<" ">> \o sResources \o <<" ","x"," ">> \o sAdded
        \o <<","," ","1"," ">> \o sChanged,
      sApplyComplete \o <<" ">> \o sResources \o <<" ","2"," ","c","r","e","a","t","e","d">>
        \o <<","," ","1"," ">> \o sDestroyed,
      sApplyComplete \o <<" ">> \o sResources \o <<" ","1"," ">> \o sImported
        \o <<","," ","1"," ">> \o sDestroyed }

SummaryLines ==
    { SummaryLine(a, c, d, imp) : a \in 0..MaxCount, c \in 0..MaxCount,
                                  d \in 0..MaxCount, imp \in -1..MaxCount }

SeqsUpTo(S, n) ==
    UNION { [1..k -> S] : k \in 0..n }

\* apply transcripts for parseLogStats
StatsLines ==
    { Line(t, 0) : t \in SummaryLines \cup OddMarkerLines \cup {sCreating} }

StatsFiles ==
    {NoFile} \cup { LogFile(ls) : ls \in SeqsUpTo(StatsLines, MaxLines) }

\* transcripts for isTerraformRunSuccessful
OutcomeLines ==
    { Line(t, p) : t \in {sCreating, sErrorLine, sBoxErrorLine, sErrorsWord,
                          SummaryLine(1, 0, 0, -1), <<>>},
                   p \in {0, MaxScanTokenSize} }

OutcomeFiles ==
    {NoFile} \cup { LogFile(ls) : ls \in SeqsUpTo(OutcomeLines, MaxLines) }

\* refresh transcripts for detectDrift: fragments, each ended by a newline
Fragments ==
    { sRefreshLine, sNoChanges, sNoChangesPlan, sRefreshingNoDots, sErrorLine }

RECURSIVE Join(_)
Join(frs) ==
    IF frs = <<>> THEN <<>> ELSE Head(frs) \o <<"\n">> \o Join(Tail(frs))

RefreshFiles ==
    {NoFile} \cup { TextFile(Join(frs)) : frs \in SeqsUpTo(Fragments, MaxFragments) }

\* plan documents
ActionLists ==
    { <<>>, <<"create">>, <<"update">>, <<"delete">>,
      <<"delete", "create">>, <<"update", "import">> }

Timestamps ==
    { "", "2024-05-01T10:00:00Z", "yesterday" }

PlanDocs ==
    { [valid |-> TRUE, Timestamp |-> ts, ResourceChanges |-> rcs] :
        ts \in Timestamps,
        rcs \in SeqsUpTo({ ResourceChange("aws_instance", a) : a \in ActionLists },
                         MaxRecords) }

\* a plan file: a JSON document on one line (a short one, or one longer than
\* the scanner's buffer), or text that is no JSON
PlanFiles ==
    { PlanFile(j, <<Line(sJson, p)>>) : j \in PlanDocs, p \in {0, MaxScanTokenSize} }
      \cup { PlanFile(Invalid, ls) :
               ls \in { <<>>, <<Line(sPlanText, 0)>>, <<Line(sErrorLine, 0)>> } }

\* the apply and refresh logs of a whole run
RunApplyFiles ==
    { NoFile,
      LogFile(<<Line(SummaryLine(2, 1, 0, -1), 0)>>),
      LogFile(<<Line(sCreating, 0), Line(SummaryLine(1, 0, 2, 1), 0)>>),
      LogFile(<<Line(sCreating, 0), Line(sErrorLine, 0)>>) }

RunRefreshFiles ==
    { NoFile,
      TextFile(Join(<<sRefreshLine, sNoChanges>>)),
      TextFile(Join(<<sRefreshLine>>)) }

Paths == {"", "plan.json", "apply.log", "refresh.log"}

Env(pp, ap, rp) ==
    [planPath |-> pp, applyLogPath |-> ap, refreshLogPath |-> rp,
     startTimeEnv |-> <<"9","0">>, now |-> 100, elapsed |-> 1]

Files(pf, af, rf) ==
    [p \in Paths |-> CASE p = "plan.json"   -> pf
                       [] p = "apply.log"   -> af
                       [] p = "refresh.log" -> rf
                       [] OTHER             -> NoFile]

(***************************************************************************)
(* The two exporters.                                                      *)
(***************************************************************************)
Idle ==
    /\ metrics = NoMetrics
    /\ writes = <<>>
    /\ calls = <<>>
    /\ stdout = <<>>
    /\ ret = "none"
    /\ pushed = <<>>

\* an environment variable is unset (and then its file plays no part) or
\* names the file
Init ==
    /\ pc = "start"
    /\ \E pp \in {"", "plan.json"}, pf \in PlanFiles \cup {NoFile} :
         /\ pp = "" => pf = NoFile
         /\ \/ /\ prog = "collectMetrics"
               /\ \E ap \in {"", "apply.log"}, af \in RunApplyFiles,
                     rp \in {"", "refresh.log"}, rf \in RunRefreshFiles :
                    /\ ap = "" => af = NoFile
                    /\ rp = "" => rf = NoFile
                    /\ env = Env(pp, ap, rp)
                    /\ fs = Files(pf, af, rf)
            \/ /\ prog = "parseTerraformPlan"
               /\ env = Env(pp, "", "")
               /\ fs = Files(pf, NoFile, NoFile)
    /\ Idle

\* collectMetrics, up to the call of pusher.Push()
CollectMetrics ==
    /\ prog = "collectMetrics" /\ pc = "start"
    /\ LET r == collectMetrics(fs, env)
       IN  /\ writes' = r.writes
           /\ metrics' = r.metrics
           /\ calls' = r.calls
           /\ stdout' = r.stdout
    /\ pc' = "push"
    /\ UNCHANGED <<prog, env, fs, ret, pushed>>

\* main of the earlier exporter, up to the call of Push()
PlanMainRun ==
    /\ prog = "parseTerraformPlan" /\ pc = "start"
    /\ LET r == PlanMain(fs, env)
       IN  /\ writes' = r.writes
           /\ metrics' = r.metrics
           /\ stdout' = r.stdout
    /\ pc' = "push"
    /\ UNCHANGED <<prog, env, fs, calls, ret, pushed>>

\* Push() delivers the whole batch; the process ends with status 0
PushOk ==
    /\ pc = "push"
    /\ pushed' = Append(pushed, metrics)
    /\ ret' = "nil"
    /\ pc' = "exit0"
    /\ UNCHANGED <<prog, env, fs, metrics, writes, calls, stdout>>

\* Push() fails; main prints the error and ends with status 1
PushFail ==
    /\ pc = "push"
    /\ ret' = "push error"
    /\ stdout' = Append(stdout, IF prog = "collectMetrics"
                                THEN "Error pushing metrics:" ELSE "Push failed:")
    /\ pc' = "exit1"
    /\ UNCHANGED <<prog, env, fs, metrics, writes, calls, pushed>>

Next ==
    \/ CollectMetrics
    \/ PlanMainRun
    \/ PushOk
    \/ PushFail

Spec == Init /\ [][Next]_vars

(***************************************************************************)
(* The transcript interpreters on their own, over wider sets of inputs.    *)
(***************************************************************************)
InitStats ==
    /\ prog = "parseLogStats" /\ pc = "start"
    /\ env = Env("", "apply.log", "")
    /\ \E f \in StatsFiles : fs = Files(NoFile, f, NoFile)
    /\ Idle

CallParseLogStats ==
    /\ prog = "parseLogStats" /\ pc = "start"
    /\ ret' = parseLogStats(fs, env.applyLogPath)
    /\ pc' = "returned"
    /\ UNCHANGED <<prog, env, fs, metrics, writes, calls, stdout, pushed>>

SpecStats == InitStats /\ [][CallParseLogStats]_vars

InitDrift ==
    /\ prog = "detectDrift" /\ pc = "start"
    /\ env = Env("", "", "refresh.log")
    /\ \E f \in RefreshFiles : fs = Files(NoFile, NoFile, f)
    /\ Idle

CallDetectDrift ==
    /\ prog = "detectDrift" /\ pc = "start"
    /\ LET r == detectDrift(fs, env.refreshLogPath)
       IN  /\ ret' = r.drift
           /\ stdout' = r.out
    /\ pc' = "returned"
    /\ UNCHANGED <<prog, env, fs, metrics, writes, calls, pushed>>

SpecDrift == InitDrift /\ [][CallDetectDrift]_vars

InitOutcome ==
    /\ prog = "isTerraformRunSuccessful" /\ pc = "start"
    /\ env = Env("", "apply.log", "")
    /\ \E f \in OutcomeFiles : fs = Files(NoFile, f, NoFile)
    /\ Idle

CallIsTerraformRunSuccessful ==
    /\ prog = "isTerraformRunSuccessful" /\ pc = "start"
    /\ ret' = isTerraformRunSuccessful(fs, env.applyLogPath)
    /\ calls' = Append(calls, env.applyLogPath)
    /\ pc' = "returned"
    /\ UNCHANGED <<prog, env, fs, metrics, writes, stdout, pushed>>

SpecOutcome == InitOutcome /\ [][CallIsTerraformRunSuccessful]_vars

(***************************************************************************)
(* Properties.                                                             *)
(***************************************************************************)
\* the plan file of the run and the records of its document (none when the
\* file is absent or is no JSON)
ThePlanFile == fs[env.planPath]

PlanIsValid == ThePlanFile.exists /\ ThePlanFile.json.valid

PlanRecords ==
    IF PlanIsValid THEN ThePlanFile.json.ResourceChanges ELSE <<>>

\* number of records whose actions hold the action a
CountWith(a) ==
    Cardinality({ i \in DOMAIN PlanRecords :
                    \E k \in DOMAIN PlanRecords[i].Actions :
                        PlanRecords[i].Actions[k] = a })

HasSingleUpdate ==
    \E i \in DOMAIN PlanRecords : PlanRecords[i].Actions = <<"update">>

Collected == prog = "collectMetrics" /\ pc /= "start"

PlanMainDone == prog = "parseTerraformPlan" /\ pc /= "start"

\* C1: the drift gauge collectMetrics builds is 1 exactly when the refresh
\* log indicates drift or the plan holds a record whose actions are exactly
\* <<update>>.
C1_DriftGaugeIsRefreshOrPlan ==
    Collected =>
        ( metrics["terraform_drift_detected"] = 1
            <=> ( \/ detectDrift(fs, env.refreshLogPath).drift = 1
                  \/ HasSingleUpdate ) )

\* the apply transcript of a parseLogStats call
TheApplyLog == fs[env.applyLogPath]

StatsReturned == prog = "parseLogStats" /\ pc = "returned"

\* the transcript holds the summary line for (a, c, d, imp) once and no other
\* line with the marker
OnlySummary(a, c, d, imp) ==
    /\ TheApplyLog.exists
    /\ Cardinality({ k \in DOMAIN TheApplyLog.lines :
                       TheApplyLog.lines[k].text = SummaryLine(a, c, d, imp) }) = 1
    /\ \A k \in DOMAIN TheApplyLog.lines :
           Contains(TheApplyLog.lines[k].text, sApplyComplete)
               => TheApplyLog.lines[k].text = SummaryLine(a, c, d, imp)

\* C2: from a transcript whose one summary line reads `a added, c changed,
\* d destroyed[, i imported].`, parseLogStats returns a, c, d and i (0 for i
\* when the clause is absent).
C2_SummaryLineParsed ==
    StatsReturned =>
        \A a \in 0..MaxCount, c \in 0..MaxCount, d \in 0..MaxCount,
           imp \in -1..MaxCount :
            OnlySummary(a, c, d, imp) =>
                ret = [added |-> a, changed |-> c, destroyed |-> d,
                       imported |-> IF imp < 0 THEN 0 ELSE imp]

\* C3: collectMetrics writes every gauge name at most once, so the map handed
\* to the push step holds one gauge per write and no planned count was
\* overwritten by an actual count.
C3_GaugeNamesUnique ==
    Collected =>
        /\ \A i \in DOMAIN writes, j \in DOMAIN writes :
               i /= j => writes[i].name /= writes[j].name
        /\ Cardinality(DOMAIN metrics) = Len(writes)
        /\ \A i \in DOMAIN writes : metrics[writes[i].name] = writes[i].value

C3_Witness ==
    /\ Collected /\ pc = "exit0"
    /\ env.applyLogPath /= ""
    /\ Len(writes) = 13
    /\ Len(PlanRecords) > 0
    /\ metrics["terraform_added"] = 2
    /\ metrics["terraform_to_add"] = 1

\* the refresh transcript of a detectDrift call
TheRefreshLog == fs[env.refreshLogPath]

DriftReturned == prog = "detectDrift" /\ pc = "returned"

\* C4: detectDrift returns no-drift for a text with the no-changes phrase
\* (with or without `Refreshing state...`), drift for a text with
\* `Refreshing state...` and without the phrase, no-drift for a text with
\* neither and for a file that cannot be read.
C4_DetectDriftRule ==
    DriftReturned =>
        /\ ~TheRefreshLog.exists => ret = 0
        /\ TheRefreshLog.exists =>
             LET noChanges  == Contains(TheRefreshLog.text, sNoChanges)
                 refreshing == Contains(TheRefreshLog.text, sRefreshing)
             IN  /\ noChanges => ret = 0
                 /\ (refreshing /\ ~noChanges) => ret = 1
                 /\ (~refreshing /\ ~noChanges) => ret = 0

C4_Witness ==
    /\ DriftReturned
    /\ TheRefreshLog.exists
    /\ Contains(TheRefreshLog.text, sNoChanges)
    /\ Contains(TheRefreshLog.text, sRefreshing)
    /\ ret = 0

OutcomeReturned == prog = "isTerraformRunSuccessful" /\ pc = "returned"

\* C5: isTerraformRunSuccessful returns false when any line of the transcript
\* holds an error marker or the file cannot be opened, and true otherwise.
C5_OutcomeRule ==
    OutcomeReturned =>
        ( ret <=> /\ TheApplyLog.exists
                  /\ \A k \in DOMAIN TheApplyLog.lines :
                         /\ ~Contains(TheApplyLog.lines[k].text, sErrorColon)
                         /\ ~Contains(TheApplyLog.lines[k].text, sBoxError) )

\* C6: the planned counts are membership counts over the records of the plan
\* document: a record counts in every bucket whose action it holds, and the
\* total is the number of records.
C6_PlannedCounts ==
    /\ Collected =>
         /\ metrics["terraform_resources_total"] = Len(PlanRecords)
         /\ metrics["terraform_to_add"] = CountWith("create")
         /\ metrics["terraform_to_change"] = CountWith("update")
         /\ metrics["terraform_to_destroy"] = CountWith("delete")
         /\ metrics["terraform_to_import"] = CountWith("import")
         /\ (\A i \in DOMAIN PlanRecords :
                 PlanRecords[i].Actions \in {<<"create">>, <<"update">>, <<"delete">>})
              => metrics["terraform_to_add"] + metrics["terraform_to_change"]
                   + metrics["terraform_to_destroy"] = Len(PlanRecords)
    /\ PlanMainDone =>
         /\ metrics["terraform_resources_total"] = Len(PlanRecords)
         /\ metrics["terraform_resources_added"] = CountWith("create")
         /\ metrics["terraform_resources_changed"] = CountWith("update")
         /\ metrics["terraform_resources_destroyed"] = CountWith("delete")

C6_Witness ==
    /\ Collected /\ pc = "exit0"
    /\ \E i \in DOMAIN PlanRecords : PlanRecords[i].Actions = <<"delete", "create">>
    /\ \E i \in DOMAIN PlanRecords : PlanRecords[i].Actions = <<"update", "import">>
    /\ metrics["terraform_to_add"] = 1
    /\ metrics["terraform_to_destroy"] = 1
    /\ metrics["terraform_to_change"] = 1
    /\ metrics["terraform_to_import"] = 1
    /\ metrics["terraform_resources_total"] = 2

\* C7: the drift gauge parseTerraformPlan sets is 1 exactly when some record's
\* actions are the one element `update`; it is 0 for a plan without records
\* and for updates that only occur beside other actions.
C7_PlanDrift ==
    PlanMainDone =>
        metrics["terraform_drift_detected"] = (IF HasSingleUpdate THEN 1 ELSE 0)

C7_Witness ==
    /\ PlanMainDone /\ pc = "exit0"
    /\ Len(PlanRecords) = 2
    /\ PlanRecords[1].Actions = <<"update", "import">>
    /\ PlanRecords[2].Actions = <<"update">>
    /\ metrics["terraform_drift_detected"] = 1

\* what a run of collectMetrics shows of itself: the gauges and the output
Observable(files, e) ==
    LET r == collectMetrics(files, e)
    IN  <<r.metrics, r.stdout>>

\* C8: an absent plan file gives a plan without resource changes and the run
\* goes on; a plan file that is no JSON gives a result that differs from the
\* one of the absent file.
C8_DecodeErrorDistinct ==
    Collected =>
        /\ ~ThePlanFile.exists => metrics["terraform_resources_total"] = 0
        /\ (ThePlanFile.exists /\ ~ThePlanFile.json.valid) =>
             <<metrics, stdout>>
                 /= Observable([fs EXCEPT ![env.planPath] = NoFile], env)

\* C9: collectMetrics invokes the outcome classifier once, on the apply log
\* when one is configured and on the plan path otherwise, and writes one
\* terraform_result gauge: 1 for success, 0 for failure.
C9_OneResultGauge ==
    Collected =>
        LET path == IF env.applyLogPath /= "" THEN env.applyLogPath ELSE env.planPath
        IN  /\ calls = <<path>>
            /\ Cardinality({ i \in DOMAIN writes :
                               writes[i].name = "terraform_result" }) = 1
            /\ metrics["terraform_result"]
                 = (IF isTerraformRunSuccessful(fs, path) THEN 1 ELSE 0)

C9_Witness ==
    /\ Collected /\ pc = "exit0"
    /\ env.applyLogPath /= ""
    /\ metrics["terraform_result"] = 1
    /\ ThePlanFile.exists
    /\ ~isTerraformRunSuccessful(fs, env.planPath)

\* a segment the summary parser can read: an integer and a known keyword
IsInt(s) ==
    LET body == IF s /= <<>> /\ Head(s) \in {"+", "-"} THEN Tail(s) ELSE s
    IN  body /= <<>> /\ \A k \in 1..Len(body) : IsDigit(body[k])

\* the counts after the parseable segments alone, every other segment skipped
SkipStat(st, stat) ==
    LET parts == Fields(TrimSpace(stat))
    IN  IF Len(parts) < 2 \/ ~IsInt(parts[1]) THEN st ELSE ApplyStat(st, stat)

RECURSIVE SkipStats(_, _)
SkipStats(st, stats) ==
    IF stats = <<>> THEN st ELSE SkipStats(SkipStat(st, Head(stats)), Tail(stats))

RECURSIVE SkipScan(_, _)
SkipScan(st, lines) ==
    IF lines = <<>> THEN st
    ELSE LET fields == Split(Head(lines), ":")
         IN  SkipScan(IF Contains(Head(lines), sApplyComplete) /\ Len(fields) >= 2
                      THEN SkipStats(st, Split(fields[2], ","))
                      ELSE st,
                      Tail(lines))

\* C10: a segment whose leading token is no integer, or whose keyword is not
\* known, leaves the four counts as they were: parseLogStats returns what the
\* parseable segments set, earlier marker lines included.
C10_UnparseableSkipped ==
    (StatsReturned /\ TheApplyLog.exists) =>
        ret = SkipScan(Zero, Scanned(TheApplyLog.lines))

=============================================================================
